---- MODULE Spec2Model ----
(***************************************************************************)
(* hetzner-dns-update: one invocation discovers the public IPv4/IPv6       *)
(* addresses and reconciles the A/AAAA records of every configured domain  *)
(* against the provider's REST API.                                        *)
(*                                                                         *)
(* Two variants of the program are in the repository and both are modelled:*)
(*   "main.go"   src/main.go                                               *)
(*   "part_000"  src/unnamed/part_000, lines 221-628 (create/update/delete)*)
(*                                                                         *)
(* Strings that the code splits at "." (domain names, zone names, record   *)
(* names) are sequences of labels: strings.Split(s, ".") is the sequence   *)
(* itself and two names are equal as strings iff they are equal as         *)
(* sequences.  Every other string (IDs, IP texts, types) is a string, with *)
(* "" the Go zero value.  config.TTL is passed through unchanged to every  *)
(* write and is left out.                                                  *)
(***************************************************************************)
EXTENDS Integers, Sequences, FiniteSets, TLC

\* length of config.Records is at most MaxDomains
MaxDomains == 2
\* number of invocations of the program in SpecRuns
MaxRuns == 2

Variants == {"main.go", "part_000"}

\* configured fully-qualified domain names
FQDNs ==
  { <<"a", "example", "com">>,
    <<"host", "sub", "example", "com">>,
    <<"a", "b", "example", "com">>,
    <<"localhost">> }

\* bodies the IP echo services answer with ("" is an empty body); an empty
\* ipv6 also comes from a failed IPv6 request
V4Bodies == {"1.2.3.4", ""}
V6Bodies == {"::1"}

\* the provider's zone lists
ZoneEx == [id |-> "z1", name |-> <<"example", "com">>]
ZoneSub == [id |-> "z2", name |-> <<"sub", "example", "com">>]
ZoneLists == { <<ZoneEx, ZoneSub>>, <<ZoneSub>> }

Rec(id, zid, type, name, value) ==
  [id |-> id, zone_id |-> zid, type |-> type, name |-> name, value |-> value]

\* the provider's record lists before the first run
RecordLists ==
  { <<>>,
    \* everything current
    << Rec("r1", "z1", "A", <<"a">>, "1.2.3.4"), Rec("r2", "z1", "AAAA", <<"a">>, "::1"),
       Rec("r3", "z2", "A", <<"host">>, "1.2.3.4"), Rec("r4", "z2", "AAAA", <<"host">>, "::1") >>,
    \* everything stale
    << Rec("r1", "z1", "A", <<"a">>, "5.6.7.8"), Rec("r2", "z1", "AAAA", <<"a">>, "::2"),
       Rec("r3", "z2", "A", <<"host">>, "5.6.7.8"), Rec("r5", "z1", "A", <<"host">>, "5.6.7.8"),
       Rec("r6", "z1", "A", <<"a", "b">>, "5.6.7.8") >>,
    \* only one family present
    << Rec("r1", "z1", "A", <<"a">>, "5.6.7.8"), Rec("r4", "z2", "AAAA", <<"host">>, "::2") >>,
    << Rec("r2", "z1", "AAAA", <<"a">>, "::2"), Rec("r3", "z2", "A", <<"host">>, "1.2.3.4") >>,
    \* several records with the same (name, type)
    << Rec("r1", "z1", "A", <<"a">>, "1.2.3.4"), Rec("r7", "z1", "A", <<"a">>, "5.6.7.8"),
       Rec("r2", "z1", "AAAA", <<"a">>, "::2"), Rec("r8", "z1", "AAAA", <<"a">>, "::1") >> }

\* Record{} : the zero value of the Record struct
EmptyRecord == [id |-> "", type |-> "", name |-> <<>>, value |-> ""]

\* a Record as decoded from the provider's JSON (zone_id is not a field of Record)
AsRecord(r) == [id |-> r.id, type |-> r.type, name |-> r.name, value |-> r.value]

VARIABLES
  variant,      \* which variant of the program runs
  updateMode,   \* --update
  verboseMode,  \* --verbose
  domains,      \* config.Records
  zones,        \* provider: the zone list
  records,      \* provider: the stored records, in response order
  nextId,       \* provider: number of records created so far
  pc,           \* position of main
  i,            \* index of the domain of the current loop iteration
  ipv4, ipv6,   \* main's ipv4, ipv6
  zoneID, recordA, recordAAAA,  \* main's loop locals
  lookup,       \* history: how the two IP lookups ended
  visited,      \* history: indices of the domains whose loop body started
  decisions,    \* history: branch taken per family in the latest iteration
  calls,        \* history: provider calls of the latest iteration, in order
  mails,        \* history: logAndMail messages of the latest iteration
  stdout,       \* history: verbose lines of the latest iteration
  summary,      \* history: counts over the earlier iterations of this run
  run,          \* number of the current invocation
  prev          \* history: summary of the previous invocation

vars == <<variant, updateMode, verboseMode, domains, zones, records, nextId, pc, i,
          ipv4, ipv6, zoneID, recordA, recordAAAA, lookup, visited, decisions,
          calls, mails, stdout, summary, run, prev>>

config == <<variant, updateMode, verboseMode, domains>>
provider == <<zones, records, nextId>>
locals == <<zoneID, recordA, recordAAAA>>
history == <<visited, decisions, calls, mails, stdout, summary>>

RECURSIVE SeqsUpTo(_, _)
SeqsUpTo(S, n) ==
  IF n = 0 THEN {<<>>}
  ELSE LET shorter == SeqsUpTo(S, n - 1)
       IN shorter \cup {Append(s, x) : s \in {t \in shorter : Len(t) = n - 1}, x \in S}

DomainLists == SeqsUpTo(FQDNs, MaxDomains) \ {<<>>}

NoLookup == [v4 |-> "none", v6 |-> "none", body4 |-> ""]

NoSummary == [errors |-> 0, writes |-> 0, badCalls |-> 0]

NoPrev == [complete |-> FALSE, update |-> FALSE, allOk |-> FALSE, ipv4 |-> "", ipv6 |-> ""]

Init ==
  /\ variant \in Variants
  /\ updateMode \in BOOLEAN
  /\ verboseMode \in BOOLEAN
  /\ domains \in DomainLists
  /\ zones \in ZoneLists
  /\ records \in RecordLists
  /\ nextId = 0
  /\ pc = "discover"
  /\ i = 0
  /\ ipv4 = "" /\ ipv6 = ""
  /\ zoneID = "" /\ recordA = EmptyRecord /\ recordAAAA = EmptyRecord
  /\ lookup = NoLookup
  /\ visited = <<>> /\ decisions = <<>> /\ calls = <<>> /\ mails = <<>> /\ stdout = <<>>
  /\ summary = NoSummary
  /\ run = 1
  /\ prev = NoPrev

(***************************************************************************)
(* IP discovery                                                            *)
(***************************************************************************)
\* how one http.Get + io.ReadAll can end: the request fails, reading the body
\* fails, or a body is read
LookupOutcomes(bodies) ==
  {[kind |-> "reqfail", body |-> ""], [kind |-> "readfail", body |-> ""]}
    \cup {[kind |-> "ok", body |-> b] : b \in bodies}

\* getPublicIPs with the IPv4 request failure not returned as an error
getPublicIPs_ignoreV4(r4, r6) ==
  IF r4.kind = "reqfail" THEN [v4 |-> "", v6 |-> "", err |-> FALSE]
  ELSE IF r4.kind = "readfail" THEN [v4 |-> "", v6 |-> "", err |-> TRUE]
  ELSE IF r6.kind = "reqfail" THEN [v4 |-> r4.body, v6 |-> "", err |-> FALSE]
  ELSE IF r6.kind = "readfail" THEN [v4 |-> "", v6 |-> "", err |-> TRUE]
  ELSE [v4 |-> r4.body, v6 |-> r6.body, err |-> FALSE]

getPublicIPs(r4, r6) ==
  IF r4.kind = "reqfail" THEN [v4 |-> "", v6 |-> "", err |-> TRUE]
  ELSE IF r4.kind = "readfail" THEN [v4 |-> "", v6 |-> "", err |-> TRUE]
  ELSE IF r6.kind = "reqfail" THEN [v4 |-> r4.body, v6 |-> "", err |-> FALSE]
  ELSE IF r6.kind = "readfail" THEN [v4 |-> "", v6 |-> "", err |-> TRUE]
  ELSE [v4 |-> r4.body, v6 |-> r6.body, err |-> FALSE]

OkKinds == {"updated", "created", "deleted"}

\* logAndMail(message): every message but the three success messages is an error
Mail(kind, idx, family) ==
  [kind |-> kind, i |-> idx, family |-> family, error |-> kind \notin OkKinds]

\* where the loop goes after the body of iteration i
AfterDomain == IF i < Len(domains) THEN "zone" ELSE "done"

\* main, lines 75-80: discovery; a failure is logged, mailed and exits with 1
Discover ==
  /\ pc = "discover"
  /\ \E r4 \in LookupOutcomes(V4Bodies), r6 \in LookupOutcomes(V6Bodies) :
       LET res == getPublicIPs(r4, r6) IN
       /\ lookup' = [v4 |-> r4.kind, v6 |-> IF r4.kind = "ok" THEN r6.kind ELSE "none",
                     body4 |-> r4.body]
       /\ IF res.err
            THEN /\ mails' = Append(mails, Mail("discovery error", 0, ""))
                 /\ pc' = "exit1"
                 /\ UNCHANGED <<ipv4, ipv6, i>>
            ELSE /\ ipv4' = res.v4
                 /\ ipv6' = res.v6
                 /\ i' = IF Len(domains) > 0 THEN 1 ELSE 0
                 /\ pc' = IF Len(domains) > 0 THEN "zone" ELSE "done"
                 /\ UNCHANGED mails
  /\ UNCHANGED <<config, provider, locals, visited, decisions, calls, stdout, summary, run, prev>>

(***************************************************************************)
(* The provider                                                            *)
(***************************************************************************)
\* how a GET of a listing can end: a transport failure, a body that decodes to
\* the listing, or a body that does not (the Decode error is ignored by the
\* code, the listing stays empty)
GetOutcomes == {"neterr", "ok", "undecodable"}

RECURSIVE OfZone(_, _)
OfZone(recs, zid) ==
  IF recs = <<>> THEN <<>>
  ELSE IF Head(recs).zone_id = zid
         THEN <<AsRecord(Head(recs))>> \o OfZone(Tail(recs), zid)
         ELSE OfZone(Tail(recs), zid)

\* GET /zones
ZonesResponse(net) ==
  [neterr |-> net = "neterr", zones |-> IF net = "ok" THEN zones ELSE <<>>]

\* GET /records?zone_id=
RecordsResponse(net, zid) ==
  [neterr |-> net = "neterr", records |-> IF net = "ok" THEN OfZone(records, zid) ELSE <<>>]

\* the status of a listing: 0 is a transport failure, 500 stands for every answer
\* whose body holds no listing
GetStatus(net) == IF net = "neterr" THEN 0 ELSE IF net = "ok" THEN 200 ELSE 500

Call(op, zid, id, type, name, value) ==
  [op |-> op, i |-> i, family |-> "", zone_id |-> zid, id |-> id, type |-> type,
   name |-> name, value |-> value, status |-> 0]

HasId(recs, id) == \E k \in 1..Len(recs) : recs[k].id = id

\* the status a write can end with: 0 is a transport failure (no response); a
\* PUT or DELETE of an ID the provider does not hold is never answered with 2xx
Statuses(req) ==
  IF req.op = "create" \/ HasId(records, req.id) THEN {0, 200, 201, 500} ELSE {0, 404}

\* the provider has carried out a write exactly when it answers it with 2xx
Accepted(st) == st \in {200, 201}

RECURSIVE Without(_, _)
Without(recs, id) ==
  IF recs = <<>> THEN <<>>
  ELSE IF Head(recs).id = id THEN Without(Tail(recs), id)
       ELSE <<Head(recs)>> \o Without(Tail(recs), id)

\* the provider's records after a write answered with status st
Apply(recs, req, st) ==
  IF ~Accepted(st) THEN recs
  ELSE IF req.op = "create"
    THEN Append(recs, Rec("n" \o ToString(nextId + 1), req.zone_id, req.type, req.name, req.value))
  ELSE IF req.op = "update"
    THEN [k \in 1..Len(recs) |->
            IF recs[k].id = req.id
              THEN Rec(req.id, req.zone_id, req.type, req.name, req.value)
              ELSE recs[k]]
  ELSE Without(recs, req.id)

(***************************************************************************)
(* Zone resolution                                                         *)
(***************************************************************************)
NoZone(err) == [err |-> err, id |-> ""]

\* the ID of the first zone of the listing whose name is name
RECURSIVE FirstZoneNamed(_, _, _)
FirstZoneNamed(zs, name, err) ==
  IF zs = <<>> THEN NoZone(err)
  ELSE IF Head(zs).name = name THEN [err |-> "", id |-> Head(zs).id]
       ELSE FirstZoneNamed(Tail(zs), name, err)

\* src/main.go: the zone is the one named by the last two labels
findZoneID(domain, resp) ==
  IF resp.neterr THEN NoZone("transport")
  ELSE IF Len(domain) < 2 THEN NoZone("invalid")
  ELSE LET baseDomain == <<domain[Len(domain) - 1], domain[Len(domain)]>>
       IN FirstZoneNamed(resp.zones, baseDomain, "not found")

\* part_000: the zone is the one named exactly as its argument
findZoneID_p0(domain, resp) ==
  IF resp.neterr THEN NoZone("transport")
  ELSE FirstZoneNamed(resp.zones, domain, "not found")

NextI == IF i < Len(domains) THEN i + 1 ELSE i

WriteOps == {"create", "update", "delete"}

Line(idx, family, text) == [i |-> idx, family |-> family, text |-> text]

NumWrites(cs) == Cardinality({k \in 1..Len(cs) : cs[k].op \in WriteOps})
NumBadCalls(cs) == Cardinality({k \in 1..Len(cs) : cs[k].status # 200})
HasError(ms) == \E k \in 1..Len(ms) : ms[k].error

\* the counts of the run so far, earlier iterations and the latest one:
\* iterations that logged an error, write calls, calls not answered with 200
Totals ==
  [errors |-> summary.errors + (IF HasError(mails) THEN 1 ELSE 0),
   writes |-> summary.writes + NumWrites(calls),
   badCalls |-> summary.badCalls + NumBadCalls(calls)]

\* the loop body starts: the histories of the latest iteration are counted
\* into summary and start afresh with what the first step adds
StartIteration(newCalls, newMails) ==
  /\ visited' = Append(visited, i)
  /\ summary' = Totals
  /\ decisions' = <<>>
  /\ calls' = newCalls
  /\ mails' = newMails
  /\ stdout' = IF verboseMode THEN <<Line(i, "", "processing")>> ELSE <<>>


Say(line) == stdout' = IF verboseMode THEN Append(stdout, line) ELSE stdout

\* `break` in place of `continue`: the loop ends with the current iteration
Continue_break ==
  /\ pc' = "done"
  /\ i' = i
  /\ zoneID' = "" /\ recordA' = EmptyRecord /\ recordAAAA' = EmptyRecord

\* `continue`, and the end of the loop body: the next iteration starts with
\* fresh loop locals
Continue ==
  /\ pc' = AfterDomain
  /\ i' = NextI
  /\ zoneID' = "" /\ recordA' = EmptyRecord /\ recordAAAA' = EmptyRecord

ListZonesCall(net) == [Call("listZones", "", "", "", <<>>, "") EXCEPT !.status = GetStatus(net)]

\* src/main.go, lines 82-90
FindZone ==
  /\ pc = "zone" /\ variant = "main.go"
  /\ \E net \in GetOutcomes :
       LET res == findZoneID(domains[i], ZonesResponse(net)) IN
       IF res.err # ""
         THEN /\ StartIteration(<<ListZonesCall(net)>>, <<Mail("zone error", i, "")>>)
              /\ Continue
         ELSE /\ StartIteration(<<ListZonesCall(net)>>, <<>>)
              /\ zoneID' = res.id
              /\ pc' = "records"
              /\ UNCHANGED <<i, recordA, recordAAAA>>
  /\ UNCHANGED <<config, provider, ipv4, ipv6, lookup, run, prev>>

\* part_000, lines 307-323
FindZone_p0 ==
  /\ pc = "zone" /\ variant = "part_000"
  /\ IF Len(domains[i]) < 2
       THEN \* strings.SplitN(fullDomain, ".", 2) has one part
            /\ StartIteration(<<>>, <<Mail("invalid domain", i, "")>>)
            /\ Continue
       ELSE \E net \in GetOutcomes :
              LET zonePart == Tail(domains[i])
                  res == findZoneID_p0(zonePart, ZonesResponse(net)) IN
              IF res.err # ""
                THEN /\ StartIteration(<<ListZonesCall(net)>>, <<Mail("zone error", i, "")>>)
                     /\ Continue
                ELSE /\ StartIteration(<<ListZonesCall(net)>>, <<>>)
                     /\ zoneID' = res.id
                     /\ pc' = "records"
                     /\ UNCHANGED <<i, recordA, recordAAAA>>
  /\ UNCHANGED <<config, provider, ipv4, ipv6, lookup, run, prev>>

(***************************************************************************)
(* Record lookup                                                           *)
(***************************************************************************)
\* the loop of findRecords, lines 214-223: every match overwrites the result
RECURSIVE findRecordsLoop(_, _, _, _)
findRecordsLoop(recs, name, a, aaaa) ==
  IF recs = <<>> THEN [a |-> a, aaaa |-> aaaa]
  ELSE LET rec == Head(recs) IN
       IF rec.name = name /\ rec.type = "A"
         THEN findRecordsLoop(Tail(recs), name, rec, aaaa)
       ELSE IF rec.name = name /\ rec.type = "AAAA"
         THEN findRecordsLoop(Tail(recs), name, a, rec)
       ELSE findRecordsLoop(Tail(recs), name, a, aaaa)

\* findRecords without the final test of lines 225-227
findRecords_noTest(resp, name) ==
  IF resp.neterr THEN [err |-> "transport", a |-> EmptyRecord, aaaa |-> EmptyRecord]
  ELSE LET found == findRecordsLoop(resp.records, name, EmptyRecord, EmptyRecord) IN
       [err |-> "", a |-> found.a, aaaa |-> found.aaaa]

findRecords(resp, name) ==
  IF resp.neterr THEN [err |-> "transport", a |-> EmptyRecord, aaaa |-> EmptyRecord]
  ELSE LET found == findRecordsLoop(resp.records, name, EmptyRecord, EmptyRecord) IN
       IF found.a.type = "" /\ found.aaaa.type = ""
         THEN [err |-> "not found", a |-> found.a, aaaa |-> found.aaaa]
         ELSE [err |-> "", a |-> found.a, aaaa |-> found.aaaa]

\* src/main.go, lines 92-97 (parts[0]); part_000, lines 316, 325-329 (namePart)
FindRecords ==
  /\ pc = "records"
  /\ \E net \in GetOutcomes :
       LET namePart == <<domains[i][1]>>
           res == findRecords(RecordsResponse(net, zoneID), namePart) IN
       /\ calls' = Append(calls, [Call("listRecords", zoneID, "", "", namePart, "") EXCEPT
                                    !.status = GetStatus(net)])
       /\ IF res.err # ""
            THEN /\ mails' = Append(mails, Mail("record error", i, ""))
                 /\ Continue
            ELSE /\ recordA' = res.a
                 /\ recordAAAA' = res.aaaa
                 /\ pc' = "ipv4"
                 /\ UNCHANGED <<mails, i, zoneID>>
  /\ UNCHANGED <<config, provider, ipv4, ipv6, lookup, visited, decisions, stdout, summary, run, prev>>

(***************************************************************************)
(* Writes                                                                  *)
(***************************************************************************)
\* src/main.go, lines 231-241: the request of updateRecord
updateRecord(zid, recordID, name, newIP) == Call("update", zid, recordID, "A", name, newIP)

\* part_000, lines 572-582
updateRecord_p0(zid, recordID, recType, name, newIP) ==
  Call("update", zid, recordID, recType, name, newIP)

\* part_000, lines 548-558
createRecord(zid, recType, name, newIP) == Call("create", zid, "", recType, name, newIP)

\* part_000, lines 596-598
deleteRecord(recordID) == Call("delete", "", recordID, "", <<>>, "")

\* a write returns nil exactly when the response status is 200
\* any 2xx status taken as success
WriteOK_2xx(st) == st \in {200, 201}

\* `if resp.StatusCode != 200 { return fmt.Errorf(...) }`, and the transport
\* error of client.Do returned before it
WriteOK(st) == st = 200

\* the write sent a second time after a transport failure
Issue_retry(req, family, okKind, errKind) ==
  \E st \in Statuses(req) :
    LET sent == [req EXCEPT !.status = st, !.family = family] IN
    /\ records' = Apply(records, req, st)
    /\ nextId' = IF req.op = "create" /\ Accepted(st) THEN nextId + 1 ELSE nextId
    /\ \/ calls' = Append(calls, sent)
       \/ calls' = calls \o <<[sent EXCEPT !.status = 0], sent>>
    /\ mails' = Append(mails, Mail(IF WriteOK(st) THEN okKind ELSE errKind, i, family))

\* the write is sent, the provider answers, the result is logged and mailed
Issue(req, family, okKind, errKind) ==
  \E st \in Statuses(req) :
    /\ records' = Apply(records, req, st)
    /\ nextId' = IF req.op = "create" /\ Accepted(st) THEN nextId + 1 ELSE nextId
    /\ calls' = Append(calls, [req EXCEPT !.status = st, !.family = family])
    /\ mails' = Append(mails, Mail(IF WriteOK(st) THEN okKind ELSE errKind, i, family))

NoWrite == UNCHANGED <<records, nextId, calls, mails>>

\* the write issued without looking at --update
IfUpdate_always(req, family, okKind, errKind) == Issue(req, family, okKind, errKind)

\* `if *updateMode { err = <write>; if err != nil {logAndMail(..)} else {logAndMail(..)} }`
IfUpdate(req, family, okKind, errKind) ==
  IF updateMode THEN Issue(req, family, okKind, errKind) ELSE NoWrite

\* the branch taken for a family, with the values it was taken on
Decide(family, action) ==
  /\ decisions' = Append(decisions,
       [i |-> i, family |-> family, action |-> action,
        ip |-> IF family = "A" THEN ipv4 ELSE ipv6,
        rec |-> IF family = "A" THEN recordA ELSE recordAAAA])
  /\ Say(Line(i, family, action))

(***************************************************************************)
(* The decision, src/main.go                                               *)
(***************************************************************************)
\* lines 99-115 with a failed write ending the iteration
HandleIPv4_abortOnError ==
  /\ pc = "ipv4" /\ variant = "main.go"
  /\ IF recordA.value = ipv4
       THEN Decide("A", "unchanged") /\ NoWrite
       ELSE /\ Decide("A", "update")
            /\ IfUpdate(updateRecord(zoneID, recordA.id, recordA.name, ipv4), "A", "updated", "error updating")
  /\ IF calls' # calls /\ ~WriteOK(calls'[Len(calls')].status)
       THEN Continue
       ELSE pc' = "ipv6" /\ UNCHANGED <<i, locals>>
  /\ UNCHANGED <<config, zones, ipv4, ipv6, lookup, visited, summary, run, prev>>

\* lines 99-115
HandleIPv4 ==
  /\ pc = "ipv4" /\ variant = "main.go"
  /\ IF recordA.value = ipv4
       THEN Decide("A", "unchanged") /\ NoWrite
       ELSE /\ Decide("A", "update")
            /\ IfUpdate(updateRecord(zoneID, recordA.id, recordA.name, ipv4), "A", "updated", "error updating")
  /\ pc' = "ipv6"
  /\ UNCHANGED <<config, zones, i, ipv4, ipv6, locals, lookup, visited, summary, run, prev>>

\* lines 117-133
HandleIPv6 ==
  /\ pc = "ipv6" /\ variant = "main.go"
  /\ IF ipv6 # "" /\ recordAAAA.value = ipv6
       THEN Decide("AAAA", "unchanged") /\ NoWrite
       ELSE /\ Decide("AAAA", "update")
            /\ IfUpdate(updateRecord(zoneID, recordAAAA.id, recordAAAA.name, ipv6), "AAAA", "updated", "error updating")
  /\ Continue
  /\ UNCHANGED <<config, zones, ipv4, ipv6, lookup, visited, summary, run, prev>>

(***************************************************************************)
(* The decision, part_000                                                  *)
(***************************************************************************)
\* lines 334-388
HandleIPv4_p0 ==
  /\ pc = "ipv4" /\ variant = "part_000"
  /\ LET namePart == <<domains[i][1]>> IN
     IF ipv4 # ""
       THEN IF recordA.value # ""
              THEN IF recordA.value = ipv4
                     THEN Decide("A", "unchanged") /\ NoWrite
                     ELSE /\ Decide("A", "update")
                          /\ IfUpdate(updateRecord_p0(zoneID, recordA.id, "A", namePart, ipv4), "A", "updated", "error updating")
              ELSE /\ Decide("A", "create")
                   /\ IfUpdate(createRecord(zoneID, "A", namePart, ipv4), "A", "created", "error creating")
       ELSE IF recordA.value # ""
              THEN /\ Decide("A", "delete")
                   /\ IfUpdate(deleteRecord(recordA.id), "A", "deleted", "error deleting")
              ELSE Decide("A", "unchanged") /\ NoWrite
  /\ pc' = "ipv6"
  /\ UNCHANGED <<config, zones, i, ipv4, ipv6, locals, lookup, visited, summary, run, prev>>

\* lines 393-447
HandleIPv6_p0 ==
  /\ pc = "ipv6" /\ variant = "part_000"
  /\ LET namePart == <<domains[i][1]>> IN
     IF ipv6 # ""
       THEN IF recordAAAA.value # ""
              THEN IF recordAAAA.value = ipv6
                     THEN Decide("AAAA", "unchanged") /\ NoWrite
                     ELSE /\ Decide("AAAA", "update")
                          /\ IfUpdate(updateRecord_p0(zoneID, recordAAAA.id, "AAAA", namePart, ipv6), "AAAA", "updated", "error updating")
              ELSE /\ Decide("AAAA", "create")
                   /\ IfUpdate(createRecord(zoneID, "AAAA", namePart, ipv6), "AAAA", "created", "error creating")
       ELSE IF recordAAAA.value # ""
              THEN /\ Decide("AAAA", "delete")
                   /\ IfUpdate(deleteRecord(recordAAAA.id), "AAAA", "deleted", "error deleting")
              ELSE Decide("AAAA", "unchanged") /\ NoWrite
  /\ Continue
  /\ UNCHANGED <<config, zones, ipv4, ipv6, lookup, visited, summary, run, prev>>

Next ==
  \/ Discover
  \/ FindZone
  \/ FindZone_p0
  \/ FindRecords
  \/ HandleIPv4
  \/ HandleIPv6
  \/ HandleIPv4_p0
  \/ HandleIPv6_p0

Spec == Init /\ [][Next]_vars

(***************************************************************************)
(* Repeated invocation: the program runs to completion and exits; the job  *)
(* runner starts it again with the same configuration and flags.  The      *)
(* provider keeps its records, everything else starts afresh.              *)
(***************************************************************************)
Restart ==
  /\ pc \in {"done", "exit1"}
  /\ run < MaxRuns
  /\ run' = run + 1
  /\ prev' = [complete |-> pc = "done", update |-> updateMode, allOk |-> Totals.badCalls = 0,
              ipv4 |-> ipv4, ipv6 |-> ipv6]
  /\ pc' = "discover"
  /\ i' = 0
  /\ ipv4' = "" /\ ipv6' = ""
  /\ zoneID' = "" /\ recordA' = EmptyRecord /\ recordAAAA' = EmptyRecord
  /\ lookup' = NoLookup
  /\ visited' = <<>> /\ decisions' = <<>> /\ calls' = <<>> /\ mails' = <<>> /\ stdout' = <<>>
  /\ summary' = NoSummary
  /\ UNCHANGED <<config, provider>>

NextRuns == Next \/ Restart

\* the job runner invokes the program in apply mode
InitRuns == Init /\ updateMode

SpecRuns == InitRuns /\ [][NextRuns]_vars
(***************************************************************************)
(* Properties                                                              *)
(***************************************************************************)
IsWrite(c) == c.op \in WriteOps
NoWrites(cs) == \A k \in 1..Len(cs) : ~IsWrite(cs[k])
Range(f) == {f[k] : k \in DOMAIN f}
DiscoveryDone == pc \notin {"discover", "exit1"}

\* the decision table: discovered IP present?, record present?, values equal?
TableAction(ip, rec) ==
  IF ip # ""
    THEN IF rec # EmptyRecord
           THEN IF rec.value = ip THEN "unchanged" ELSE "update"
           ELSE "create"
    ELSE IF rec # EmptyRecord THEN "delete" ELSE "unchanged"

\* C1: for every domain that reaches the decision step and for each family, the
\* action chosen is the one the decision table gives for the discovered IP and
\* the record found (equal -> unchanged, different -> update, no record ->
\* create, no IP but a record -> delete, neither -> unchanged).
C1_DecisionTable ==
  \A k \in 1..Len(decisions) :
    decisions[k].action = TableAction(decisions[k].ip, decisions[k].rec)

\* C2: a run that follows a completed apply-mode run whose provider calls all
\* succeeded, with the same discovered IPv4/IPv6, issues no provider write.
C2_SecondRunWritesNothing ==
  ( /\ run > 1
    /\ prev.complete /\ prev.update /\ prev.allOk
    /\ DiscoveryDone
    /\ ipv4 = prev.ipv4 /\ ipv6 = prev.ipv6 )
  => Totals.writes = 0

RECURSIVE FamilyLines(_)
FamilyLines(so) ==
  IF so = <<>> THEN <<>>
  ELSE IF Head(so).family # "" THEN <<Head(so)>> \o FamilyLines(Tail(so))
       ELSE FamilyLines(Tail(so))

DecisionLines(ds) == [k \in 1..Len(ds) |-> Line(ds[k].i, ds[k].family, ds[k].action)]

\* C3: without --update no step of the run issues a provider write or changes
\* the provider's records, and in verbose mode every decision is reported.
C3_DryRunWritesNothing ==
  [][ ~updateMode =>
        /\ records' = records
        /\ nextId' = nextId
        /\ NoWrites(calls') /\ summary'.writes = 0
        /\ (verboseMode => FamilyLines(stdout') = DecisionLines(decisions')) ]_vars

C3_Witness ==
  /\ ~updateMode /\ verboseMode /\ pc = "done"
  /\ \E d \in Range(decisions) : d.action # "unchanged"
  /\ \E l \in Range(stdout) : l.family = "A" /\ l.text # "unchanged"

IterationOver(j) == j < i \/ pc = "done"

\* the write the AAAA decision d of domain j leads to, as call c
IsWriteFor(c, d) ==
  /\ c.i = d.i /\ c.family = d.family
  /\ c.op = d.action
  /\ (c.op \in {"update", "delete"} => c.id = d.rec.id)
  /\ (c.op \in {"update", "create"} => c.value = d.ip)

\* C4: in apply mode, when the write for the A record of a domain fails, the
\* AAAA family of that domain is still decided on the record read before the
\* A write, and the write it decides on is issued right after.
C4_FamilyIsolation ==
  \A k \in 1..Len(calls) :
    ( /\ IsWrite(calls[k]) /\ calls[k].family = "A" /\ calls[k].status # 200
      /\ IterationOver(calls[k].i) )
    => \E d \in Range(decisions) :
         /\ d.i = calls[k].i /\ d.family = "AAAA"
         /\ IF d.action = "unchanged"
              THEN k = Len(calls) \/ calls[k + 1].i # d.i
              ELSE k < Len(calls) /\ IsWriteFor(calls[k + 1], d)

C4_Witness ==
  \E k \in 1..Len(calls) :
    /\ IsWrite(calls[k]) /\ calls[k].family = "A" /\ calls[k].status = 500
    /\ k < Len(calls) /\ IsWrite(calls[k + 1]) /\ calls[k + 1].family = "AAAA"
    /\ calls[k + 1].i = calls[k].i /\ calls[k + 1].status = 200

C6_V4FailureIsFatal ==
  lookup.v4 \in {"reqfail", "readfail"} =>
    /\ pc = "exit1"
    /\ calls = <<>>
    /\ mails = <<Mail("discovery error", 0, "")>>

C6_Witness == lookup.v4 = "reqfail" /\ pc = "exit1"

\* C7: when the IPv4 lookup succeeds and the IPv6 lookup fails (the request
\* fails or reading its body fails), the run goes on with the discovered IPv4
\* and an empty IPv6.
C7_V6FailureIsNotFatal ==
  (lookup.v4 = "ok" /\ lookup.v6 \in {"reqfail", "readfail"}) =>
    /\ pc # "exit1"
    /\ ipv4 = lookup.body4
    /\ ipv6 = ""

IsSuffix(z, d) == Len(z) <= Len(d) /\ z = SubSeq(d, Len(d) - Len(z) + 1, Len(d))
IsProperSuffix(z, d) == Len(z) < Len(d) /\ IsSuffix(z, d)
MatchingZones(d) == {z \in Range(zones) : IsSuffix(z.name, d)}
LongestZones(d) == {z \in MatchingZones(d) : \A y \in MatchingZones(d) : Len(y.name) <= Len(z.name)}
UsesZone(c) == c.op \in {"listRecords", "create", "update"}

\* C8: the zone ID used for the record lookup and the writes of a domain is the
\* ID of the zone with the longest name that is a suffix of the domain.
C8_LongestSuffixZone ==
  \A k \in 1..Len(calls) :
    UsesZone(calls[k]) => \E z \in LongestZones(domains[calls[k].i]) : calls[k].zone_id = z.id

\* the iteration the histories belong to (0 before the first)
Latest == Len(visited)
ResolutionFailed == \E m \in Range(mails) : m.kind \in {"zone error", "invalid domain"}
ZoneListingOK == ~\E c \in Range(calls) : c.op = "listZones" /\ c.status # 200

\* C9: with the zone list at hand, resolving a configured domain fails if and
\* only if no proper suffix of the domain is the name of a zone; a domain whose
\* resolution failed gets no record listing and no write.
C9_ResolutionFailsIffNoSuffix ==
  (Latest > 0 /\ ZoneListingOK) =>
    /\ ResolutionFailed <=> ~\E z \in Range(zones) : IsProperSuffix(z.name, domains[Latest])
    /\ ResolutionFailed => ~\E c \in Range(calls) : c.op # "listZones"

ZoneName(id) == (CHOOSE z \in Range(zones) : z.id = id).name
LabelBefore(d, zname) == SubSeq(d, 1, Len(d) - Len(zname))

\* C10: the record name looked up for a domain, and sent as name in its
\* creates and updates, is the domain without the suffix of the matched zone.
C10_LabelIsPrefixBeforeZone ==
  \A k \in 1..Len(calls) :
    UsesZone(calls[k]) =>
      calls[k].name = LabelBefore(domains[calls[k].i], ZoneName(calls[k].zone_id))

\* the calls of the latest iteration that satisfy a test, by index
WriteIdx == {k \in 1..Len(calls) : IsWrite(calls[k])}
ListedOK == \E c \in Range(calls) : c.op = "listRecords" /\ c.status = 200
ListedZone == (CHOOSE c \in Range(calls) : c.op = "listRecords").zone_id
Label(j) == <<domains[j][1]>>

\* the provider's A/AAAA records of a name in a zone, by index
Held(zid, name) ==
  {k \in 1..Len(records) :
     records[k].zone_id = zid /\ records[k].name = name /\ records[k].type \in {"A", "AAAA"}}

\* the provider held no A/AAAA record of the name when the latest iteration
\* listed the zone: all it holds now were created by this iteration, and
\* nothing was updated or deleted
HeldNeitherWhenListed ==
  /\ ListedOK
  /\ ~\E k \in WriteIdx : calls[k].op \in {"update", "delete"} /\ Accepted(calls[k].status)
  /\ Cardinality(Held(ListedZone, Label(Latest)))
       = Cardinality({k \in WriteIdx : calls[k].op = "create" /\ Accepted(calls[k].status)})

\* C11: in apply mode, for a domain whose zone resolves and whose label has
\* neither an A nor an AAAA record, with v4 discovered and v6 empty, the
\* iteration issues exactly one write: a create of an A record with the label
\* as name and the discovered v4 as value.
C11_CreateOnEmptyZone ==
  ( /\ updateMode /\ Latest > 0 /\ IterationOver(Latest)
    /\ ipv4 # "" /\ ipv6 = ""
    /\ HeldNeitherWhenListed )
  => /\ Cardinality(WriteIdx) = 1
     /\ \A k \in WriteIdx :
          /\ calls[k].op = "create" /\ calls[k].type = "A"
          /\ calls[k].name = Label(Latest) /\ calls[k].value = ipv4

LastCall == calls[Len(calls)]

\* the latest provider call is a record listing that was answered, and what it
\* answered holds neither an A nor an AAAA record of the label (the records
\* are still as listed: no write has followed)
ListingHoldsNeither ==
  /\ calls # <<>> /\ LastCall.op = "listRecords" /\ LastCall.status # 0
  /\ LastCall.status = 500 \/ Held(LastCall.zone_id, LastCall.name) = {}

\* C12: when the record listing holds neither an A nor an AAAA record of the
\* domain's label, findRecords fails: one error is logged and mailed, no
\* decision is taken and no write issued, and the loop is at the next domain.
C12_NoRecordSkipsDomain ==
  ListingHoldsNeither =>
    /\ mails = <<Mail("record error", Latest, "")>>
    /\ decisions = <<>>
    /\ pc = (IF Latest < Len(domains) THEN "zone" ELSE "done")
    /\ (pc = "zone" => i = Latest + 1)

C12_Witness ==
  /\ ListingHoldsNeither /\ LastCall.status = 200 /\ updateMode /\ ipv4 # ""
  /\ pc = "zone" /\ i = 2

\* the messages of the latest iteration about a family's write
WriteMails(family) == {k \in 1..Len(mails) : mails[k].family = family}

\* C13: a write is reported as successful exactly when it was answered with
\* status 200; after any other status, another 2xx included, and after a
\* transport failure the family's error message is logged and mailed and the
\* success message is not.
C13_SuccessIffStatus200 ==
  /\ \A k \in WriteIdx :
       /\ WriteMails(calls[k].family) # {}
       /\ \A m \in WriteMails(calls[k].family) :
            /\ mails[m].kind \in OkKinds <=> calls[k].status = 200
            /\ mails[m].error <=> calls[k].status # 200
  /\ \A f \in {"A", "AAAA"} :
       WriteMails(f) # {} => \E k \in WriteIdx : calls[k].family = f

C13_Witness ==
  /\ \E k \in WriteIdx : calls[k].status = 201 /\ calls[k].family = "A"
  /\ \E k \in WriteIdx : calls[k].status = 0 /\ calls[k].family = "AAAA"
  /\ \E m \in WriteMails("A") : mails[m].kind = "error updating"
  /\ \E m \in WriteMails("AAAA") : mails[m].error

\* the records of a name and type in a listing, in response order
RECURSIVE Matching(_, _, _)
Matching(recs, name, type) ==
  IF recs = <<>> THEN <<>>
  ELSE IF Head(recs).name = name /\ Head(recs).type = type
         THEN <<Head(recs)>> \o Matching(Tail(recs), name, type)
         ELSE Matching(Tail(recs), name, type)

FirstMatch(recs, name, type) ==
  LET ms == Matching(recs, name, type) IN IF ms = <<>> THEN EmptyRecord ELSE Head(ms)

\* C14: when the listing holds several records of the label and a type, the
\* record main goes on with (compares with the discovered address and targets
\* with a write) is the first of them in response order, for A and for AAAA.
\* Between the lookup and the IPv4 decision the provider's records are those
\* that were listed.
C14_FirstMatchWins ==
  pc = "ipv4" =>
    /\ recordA = FirstMatch(OfZone(records, zoneID), Label(i), "A")
    /\ recordAAAA = FirstMatch(OfZone(records, zoneID), Label(i), "AAAA")

WritesOf(family) == {k \in WriteIdx : calls[k].family = family}

\* C15: for every domain of the run and each family at most one write call is
\* issued: a failed write is not issued again, a family decided unchanged
\* issues none, and the run has issued at most two writes per domain started.
C15_AtMostOneWritePerFamily ==
  /\ \A f \in {"A", "AAAA"} :
       /\ Cardinality(WritesOf(f)) <= 1
       /\ (\E d \in Range(decisions) : d.family = f /\ d.action = "unchanged")
            => WritesOf(f) = {}
  /\ \A k \in WriteIdx : calls[k].family \in {"A", "AAAA"} /\ calls[k].i = Latest
  /\ Totals.writes <= 2 * Len(visited)

C15_Witness ==
  /\ pc = "done" /\ Len(visited) = 2 /\ Totals.writes = 4
  /\ \E k \in WritesOf("A") : calls[k].status = 0
  /\ \E k \in WritesOf("AAAA") : calls[k].status = 500

DiscoveredFor(family) == IF family = "A" THEN ipv4 ELSE ipv6

\* C16: every write issued for a family carries that family's type and the
\* address discovered for it, an update or delete goes to the non-empty ID of
\* the record of that type found for the label, and the provider never holds an
\* A record whose value is the discovered IPv6 address.
C16_WritesCarryFamily ==
  /\ \A k \in WriteIdx :
       LET c == calls[k] IN
       /\ c.op \in {"create", "update"} =>
            c.type = c.family /\ c.value = DiscoveredFor(c.family)
       /\ c.op \in {"update", "delete"} =>
            /\ c.id # ""
            /\ \E d \in Range(decisions) :
                 d.family = c.family /\ d.rec.id = c.id /\ d.rec.type = c.family
  /\ (DiscoveryDone /\ ipv6 # "") =>
       ~\E k \in 1..Len(records) : records[k].type = "A" /\ records[k].value = ipv6
====
